---- MODULE Spec2Model ----
(***************************************************************************)
(* Model of the GP2Y dust sensor driver (GP2YDustSensor.h / .cpp).         *)
(*                                                                         *)
(* Voltages are single-precision floats in the source.  Here a voltage is  *)
(* the integer number of 2^-27 volt units it holds (VoltUnit), and every   *)
(* float operation rounds its exact result to a 24 bit significand, ties   *)
(* to even, as IEEE-754 binary32 does.  All voltages the model feeds in    *)
(* are multiples of 2^-27 V below 16 V, so the integers stay below 2^31.   *)
(***************************************************************************)
EXTENDS Integers, Sequences, FiniteSets, TLC

\* ------------------------------------------------------------------------
\* binary32 arithmetic on scaled integers
\* ------------------------------------------------------------------------

\* number of 2^-27 V units in one volt
VoltUnit == 134217728

\* significand width of a binary32 float
MantBits == 24

\* 2^MantBits
MantLimit == 16777216

RECURSIVE BitLen(_)
\* number of binary digits of x >= 0
BitLen(x) == IF x = 0 THEN 0 ELSE 1 + BitLen(x \div 2)

\* x >= 0 rounded to a 24 bit significand, round-half-to-even
RoundToFloat(x) ==
    IF x < MantLimit THEN x
    ELSE LET k    == BitLen(x) - MantBits
             unit == 2^k
             q    == x \div unit
             r    == x % unit
             half == unit \div 2
             up   == r > half \/ (r = half /\ q % 2 = 1)
         IN  (IF up THEN q + 1 ELSE q) * unit

\* a float m * 2^e with m < 2^24 + 1, as the record [m, e]
RECURSIVE Normalize(_, _)
\* the same value with an odd (or zero) significand
Normalize(m, e) ==
    IF m = 0 THEN [m |-> 0, e |-> 0]
    ELSE IF m % 2 = 0 THEN Normalize(m \div 2, e + 1)
    ELSE [m |-> m, e |-> e]

RECURSIVE ScaleUp(_, _)
\* the significand of m * 2^e shifted into [2^23, 2^24)
ScaleUp(m, e) ==
    IF m >= MantLimit \div 2 THEN [m |-> m, e |-> e]
    ELSE ScaleUp(2 * m, e - 1)

Mantissa(x) == LET n == Normalize(x, 0) IN ScaleUp(n.m, n.e)

RECURSIVE LongDiv(_, _, _, _)
\* steps more quotient bits of r / d appended to q; result [q, r]
LongDiv(q, r, d, steps) ==
    IF steps = 0 THEN [q |-> q, r |-> r]
    ELSE LET r2 == 2 * r
         IN  IF r2 >= d THEN LongDiv(2 * q + 1, r2 - d, d, steps - 1)
                        ELSE LongDiv(2 * q, r2, d, steps - 1)

\* float quotient a / b of two floats held in the same unit (a >= 0, b > 0)
FloatDiv(a, b) ==
    IF a = 0 THEN [m |-> 0, e |-> 0]
    ELSE LET ma == Mantissa(a)
             mb == Mantissa(b)
             qr == LongDiv(ma.m \div mb.m, ma.m % mb.m, mb.m, 25)
             sticky == IF qr.r = 0 THEN 0 ELSE 1
         IN  Normalize(RoundToFloat(2 * qr.q + sticky), ma.e - mb.e - 26)

\* float product f * 100
FloatMul100(f) == Normalize(RoundToFloat(100 * f.m), f.e)

\* the integer nearest to f >= 0, halves away from zero
FloatRound(f) ==
    IF f.e >= 0 THEN f.m * 2^f.e
    ELSE IF f.e < -30 THEN 0
    ELSE (f.m + 2^(-f.e - 1)) \div 2^(-f.e)

\* the integer part of f >= 0
FloatTrunc_Rounds(f) == FloatRound(f)

FloatTrunc(f) ==
    IF f.e >= 0 THEN f.m * 2^f.e
    ELSE IF f.e < -31 THEN 0
    ELSE f.m \div 2^(-f.e)

\* f >= 2^16: outside the range of uint16_t
FloatExceedsU16(f) ==
    IF f.e >= 16 THEN f.m # 0
    ELSE IF f.e >= 0 THEN f.m >= 2^(16 - f.e)
    ELSE IF f.e < -31 THEN FALSE
    ELSE f.m \div 2^(-f.e) >= 65536

\* ------------------------------------------------------------------------
\* program constants
\* ------------------------------------------------------------------------

GP2YDustSensorType == {"GP2Y1010AU0F", "GP2Y1014AU0F"}

\* 0.1f, 0.6f, 0.9f, 1.1f and 1.5f in 2^-27 V
MinZeroDustVoltageOf(t) == IF t = "GP2Y1010AU0F" THEN 0 ELSE 13421773
TypZeroDustVoltageOf(t) == IF t = "GP2Y1010AU0F" THEN 120795952 ELSE 80530640
MaxZeroDustVoltageOf(t) == IF t = "GP2Y1010AU0F" THEN 201326592 ELSE 147639504

BASELINE_CANDIDATE_MIN_READINGS == 10

\* default sensitivity 0.5 V per 100 ug/m3, in 2^-27 V
DefaultSensitivity == 67108864

\* the calibration factor is held in quarters: 4 is the factor 1.0
CalibUnit == 4
DefaultCalibrationFactor == 4

\* default voltage reference 5.0 V, in 2^-27 V
DefaultVRef == 671088640

\* resolution assumed for analogRead()
AdcScale == 1024

\* microseconds of the delays around one sample, and of analogRead itself
SettleMicros == 280
SampleMicros == 100
RestMicros == 9620

\* levels of the LED pin; the LED is lit while the pin is LOW
PinLevels == {"LOW", "HIGH"}

\* slot value of the running average buffer that marks an unfilled slot
EMPTY == -1

\* value a void call, or no call yet, leaves in ret
NoValue == -2

\* ------------------------------------------------------------------------
\* pure parts of getDustDensity and getRunningAverage
\* ------------------------------------------------------------------------

\* a uint16_t value stored into an int16_t slot
ToInt16(v) == IF v >= 32768 THEN v - 65536 ELSE v

\* a long converted to uint16_t
ToUint16(v) == v % 65536

RECURSIVE SumSeq(_)
SumSeq(q) == IF q = <<>> THEN 0 ELSE Head(q) + SumSeq(Tail(q))

ScaledVoltageOf_Narrow(avgRaw, ref, factor) ==
    RoundToFloat((RoundToFloat((avgRaw % 256) * (ref \div AdcScale)) \div CalibUnit) * factor)

\* avgRaw * (vRef / 1024) * calibrationFactor, in float arithmetic
ScaledVoltageOf(avgRaw, ref, factor) ==
    RoundToFloat((RoundToFloat(avgRaw * (ref \div AdcScale)) \div CalibUnit) * factor)

\* (scaledVoltage - zeroDustVoltage) / sensitivity * 100, as a float
DensityFloat(voltage, zero, sens) ==
    FloatMul100(FloatDiv(RoundToFloat(voltage - zero), sens))

\* results a conversion of an out-of-range float to uint16_t can give
\* (undefined behaviour: saturation, or the low bits of a wider integer)
OutOfRangeU16 == {0, 65535}

\* the values dustDensity can take for one scaled voltage
DustDensityOf_NoClamp(voltage, zero, sens) ==
    IF voltage < zero
    THEN {ToUint16(0 - FloatTrunc(DensityFloat(zero, voltage, sens)))}
    ELSE {FloatTrunc(DensityFloat(voltage, zero, sens))}

DustDensityOf(voltage, zero, sens) ==
    IF voltage < zero THEN {0}
    ELSE LET f == DensityFloat(voltage, zero, sens)
         IN  IF FloatExceedsU16(f) THEN OutOfRangeU16 ELSE {FloatTrunc(f)}

IsNewMinimum_NoFloor(voltage, minVoltage, t) ==
    /\ voltage < minVoltage
    /\ voltage <= MaxZeroDustVoltageOf(t)

\* the condition under which a scaled voltage replaces minDustVoltage
IsNewMinimum(voltage, minVoltage, t) ==
    /\ voltage < minVoltage
    /\ voltage >= MinZeroDustVoltageOf(t)
    /\ voltage <= MaxZeroDustVoltageOf(t)

\* the slots of buf that getRunningAverage counts
FilledSlots(buf) == {k \in 1..Len(buf) : buf[k] # EMPTY}

RECURSIVE SumSlots(_, _)
SumSlots(buf, ks) ==
    IF ks = {} THEN 0
    ELSE LET k == CHOOSE x \in ks : TRUE IN buf[k] + SumSlots(buf, ks \ {k})

\* round(sum / sampleCount) of the filled slots, converted to uint16_t
RunningAverageOf_CountsEmpty(buf) ==
    LET ks  == 1..Len(buf)
        sum == SumSlots(buf, ks)
    IN  IF sum >= 0 THEN ToUint16(FloatRound(FloatDiv(sum, Len(buf))))
        ELSE ToUint16(0 - FloatRound(FloatDiv(0 - sum, Len(buf))))

RunningAverageOf(buf) ==
    LET ks  == FilledSlots(buf)
        sum == SumSlots(buf, ks)
        n   == Cardinality(ks)
    IN  IF n = 0 THEN 0
        ELSE IF sum >= 0 THEN ToUint16(FloatRound(FloatDiv(sum, n)))
        ELSE ToUint16(0 - FloatRound(FloatDiv(0 - sum, n)))

\* ------------------------------------------------------------------------
\* state
\* ------------------------------------------------------------------------

VARIABLES
    type,                      \* sensor variant
    runningAverageCount,       \* capacity of the running average buffer
    vRef,
    zeroDustVoltage,
    minDustVoltage,
    currentBaselineCandidate,
    hasBaselineCandidate,
    readCount,
    calibrationFactor,
    sensitivity,
    runningAverageBuffer,      \* slot k of the source is element k + 1
    nextRunningAverageCounter,
    pc,                        \* position inside getDustDensity, or "idle"
    numSamples,                \* argument of the running getDustDensity
    i,                         \* its loop counter (uint8_t)
    total,                     \* its accumulator (uint32_t)
    acquired,                  \* readDustRawOnce calls made by it so far
    elapsed,                   \* microseconds it has run, analogRead taking 100
    lastOn,                    \* value of elapsed when the LED was last turned on
    VoRaw,                     \* sample held by the running readDustRawOnce
    ledPin,                    \* level of ledOutputPin; LOW turns the LED on
    lastCall,                  \* the call that returned last
    ret,                       \* what it returned
    scaledVoltage,             \* scaled voltage of the last getDustDensity
    candidateWasReady,         \* last getBaselineCandidate found a candidate
    readsSinceReset,           \* history: getDustDensity calls since construction or consumption
    inRangeMin,                \* history: least in-range voltage seen since then
    lastConsumed,              \* history: value of the last consumed candidate
    pushed,                    \* history: the last densities pushed, oldest first
    baselineSet,               \* history: last argument of setBaseline
    heldCandidate              \* a getBaselineCandidate result the owner has kept

config == <<type, runningAverageCount, vRef>>
calib  == <<zeroDustVoltage, calibrationFactor, sensitivity>>
track  == <<minDustVoltage, currentBaselineCandidate, hasBaselineCandidate, readCount>>
window == <<runningAverageBuffer, nextRunningAverageCounter>>
loop   == <<pc, numSamples, i, total, acquired, elapsed, lastOn, VoRaw>>
hist   == <<readsSinceReset, inRangeMin, lastConsumed, pushed>>
owner  == <<baselineSet, heldCandidate>>
vars   == <<config, calib, track, window, loop, ledPin, lastCall, ret, scaledVoltage,
            candidateWasReady, hist, owner>>

\* ------------------------------------------------------------------------
\* bounds of the model
\* ------------------------------------------------------------------------

\* largest running average capacity constructed
MaxCount == 3

\* readsSinceReset stops counting here
MaxReads == 12

\* readDustRawOnce calls followed within one getDustDensity call
MaxAcquired == 258

\* ------------------------------------------------------------------------
\* constructor
\* ------------------------------------------------------------------------

\* the fields as the constructor leaves them
Constructed(t, count, ref) ==
    /\ type = t
    /\ vRef = ref
    /\ sensitivity = DefaultSensitivity
    /\ nextRunningAverageCounter = 0
    /\ hasBaselineCandidate = FALSE
    /\ readCount = 0
    /\ zeroDustVoltage = TypZeroDustVoltageOf(t)
    /\ minDustVoltage = TypZeroDustVoltageOf(t)
    /\ calibrationFactor = DefaultCalibrationFactor
    /\ currentBaselineCandidate = TypZeroDustVoltageOf(t)
    /\ runningAverageCount = count
    /\ runningAverageBuffer = [k \in 1..count |-> EMPTY]

\* nothing has been called and nothing observed yet
NothingCalled ==
    /\ lastCall = "none"
    /\ ret = NoValue
    /\ scaledVoltage = NoValue
    /\ candidateWasReady = FALSE
    /\ readsSinceReset = 0
    /\ inRangeMin = NoValue
    /\ lastConsumed = NoValue
    /\ pushed = <<>>
    /\ baselineSet = NoValue
    /\ heldCandidate = NoValue

\* a freshly constructed sensor with no call in progress
Construct(t, count, ref) ==
    /\ Constructed(t, count, ref)
    /\ NothingCalled
    /\ pc = "idle"
    /\ numSamples = 0
    /\ i = 0
    /\ total = 0
    /\ acquired = 0
    /\ elapsed = 0
    /\ lastOn = 0
    /\ VoRaw = 0
    /\ ledPin \in PinLevels

\* ------------------------------------------------------------------------
\* operations
\* ------------------------------------------------------------------------

\* call returns value; voltage and ready are what getDustDensity and
\* getBaselineCandidate computed on the way, NoValue and FALSE for the rest
Returns(call, value, voltage, ready) ==
    /\ lastCall' = call
    /\ ret' = value
    /\ scaledVoltage' = voltage
    /\ candidateWasReady' = ready

SetBaseline(v) ==
    /\ pc = "idle"
    /\ zeroDustVoltage' = v
    /\ Returns("setBaseline", NoValue, NoValue, FALSE)
    /\ baselineSet' = v
    /\ UNCHANGED <<config, calibrationFactor, sensitivity, track, window, loop, ledPin,
                   hist, heldCandidate>>

GetBaseline ==
    /\ pc = "idle"
    /\ Returns("getBaseline", zeroDustVoltage, NoValue, FALSE)
    /\ UNCHANGED <<config, calib, track, window, loop, ledPin, hist, owner>>

\* getBaselineCandidate when no candidate is ready
PeekCandidate_Resets ==
    /\ readCount' = 0
    /\ Returns("getBaselineCandidate", currentBaselineCandidate, NoValue, FALSE)
    /\ UNCHANGED <<minDustVoltage, currentBaselineCandidate, hasBaselineCandidate, hist>>

PeekCandidate ==
    /\ Returns("getBaselineCandidate", currentBaselineCandidate, NoValue, FALSE)
    /\ UNCHANGED <<track, hist>>

\* getBaselineCandidate when a candidate is ready
ConsumeCandidate_KeepsMinimum ==
    /\ minDustVoltage' = minDustVoltage
    /\ currentBaselineCandidate' = minDustVoltage'
    /\ readCount' = 0
    /\ hasBaselineCandidate' = FALSE
    /\ Returns("getBaselineCandidate", minDustVoltage, NoValue, TRUE)
    /\ readsSinceReset' = 0
    /\ inRangeMin' = NoValue
    /\ lastConsumed' = minDustVoltage
    /\ UNCHANGED pushed

ConsumeCandidate_ResetsToVRef ==
    /\ minDustVoltage' = vRef
    /\ currentBaselineCandidate' = minDustVoltage'
    /\ readCount' = 0
    /\ hasBaselineCandidate' = FALSE
    /\ Returns("getBaselineCandidate", minDustVoltage, NoValue, TRUE)
    /\ readsSinceReset' = 0
    /\ inRangeMin' = NoValue
    /\ lastConsumed' = minDustVoltage
    /\ UNCHANGED pushed

ConsumeCandidate ==
    /\ minDustVoltage' = MaxZeroDustVoltageOf(type)
    /\ currentBaselineCandidate' = minDustVoltage'
    /\ readCount' = 0
    /\ hasBaselineCandidate' = FALSE
    /\ Returns("getBaselineCandidate", minDustVoltage, NoValue, TRUE)
    /\ readsSinceReset' = 0
    /\ inRangeMin' = NoValue
    /\ lastConsumed' = minDustVoltage
    /\ UNCHANGED pushed

GetBaselineCandidate_Adopts ==
    /\ pc = "idle"
    /\ IF ~hasBaselineCandidate
       THEN PeekCandidate /\ UNCHANGED zeroDustVoltage
       ELSE ConsumeCandidate /\ zeroDustVoltage' = minDustVoltage
    /\ UNCHANGED <<config, calibrationFactor, sensitivity, window, loop, ledPin, owner>>

GetBaselineCandidate ==
    /\ pc = "idle"
    /\ IF ~hasBaselineCandidate THEN PeekCandidate ELSE ConsumeCandidate
    /\ UNCHANGED <<config, calib, window, loop, ledPin, owner>>

SetSensitivity(v) ==
    /\ pc = "idle"
    /\ sensitivity' = v
    /\ Returns("setSensitivity", NoValue, NoValue, FALSE)
    /\ UNCHANGED <<config, zeroDustVoltage, calibrationFactor, track, window, loop, ledPin,
                   hist, owner>>

GetSensitivity ==
    /\ pc = "idle"
    /\ Returns("getSensitivity", sensitivity, NoValue, FALSE)
    /\ UNCHANGED <<config, calib, track, window, loop, ledPin, hist, owner>>

SetCalibrationFactor(slope) ==
    /\ pc = "idle"
    /\ calibrationFactor' = slope
    /\ Returns("setCalibrationFactor", NoValue, NoValue, FALSE)
    /\ UNCHANGED <<config, zeroDustVoltage, sensitivity, track, window, loop, ledPin,
                   hist, owner>>

\* the counter after one more slot has been written
NextCounter_OffByOne(counter, count) ==
    IF counter + 1 > count THEN 0 ELSE counter + 1

NextCounter(counter, count) ==
    IF counter + 1 >= count THEN 0 ELSE counter + 1

UpdateRunningAverage(value) ==
    /\ runningAverageBuffer' =
          [runningAverageBuffer EXCEPT ![nextRunningAverageCounter + 1] = ToInt16(value)]
    /\ nextRunningAverageCounter' = NextCounter(nextRunningAverageCounter, runningAverageCount)

\* readCount > BASELINE_CANDIDATE_MIN_READINGS
CandidateReached_AtThreshold(count) == count >= BASELINE_CANDIDATE_MIN_READINGS

CandidateReached(count) == count > BASELINE_CANDIDATE_MIN_READINGS

NextReadCount_Always(count, ready) == (count + 1) % 65536

\* readCount after a reading: it is advanced only while no candidate is ready
NextReadCount(count, ready) ==
    IF ~ready THEN (count + 1) % 65536 ELSE count

\* q with v appended, keeping the last n
KeepLast(q, v, n) ==
    LET a == Append(q, v)
    IN  IF Len(a) > n THEN SubSeq(a, Len(a) - n + 1, Len(a)) ELSE a

Least(a, b) == IF a < b THEN a ELSE b

\* getDustDensity after its sampling loop: everything from avgRaw on
Estimate(tot, n) ==
    LET avgRaw  == (tot \div n) % 65536
        voltage == ScaledVoltageOf(avgRaw, vRef, calibrationFactor)
        inRange == /\ voltage >= MinZeroDustVoltageOf(type)
                   /\ voltage <= MaxZeroDustVoltageOf(type)
    IN  \E dustDensity \in DustDensityOf(voltage, zeroDustVoltage, sensitivity) :
          /\ minDustVoltage' = IF IsNewMinimum(voltage, minDustVoltage, type)
                               THEN voltage ELSE minDustVoltage
          /\ IF runningAverageCount # 0
             THEN /\ UpdateRunningAverage(dustDensity)
                  /\ pushed' = KeepLast(pushed, dustDensity, runningAverageCount)
             ELSE UNCHANGED <<window, pushed>>
          /\ readCount' = NextReadCount(readCount, hasBaselineCandidate)
          /\ hasBaselineCandidate' = (hasBaselineCandidate \/ CandidateReached(readCount'))
          /\ Returns("getDustDensity", dustDensity, voltage, FALSE)
          /\ readsSinceReset' = Least(readsSinceReset + 1, MaxReads)
          /\ inRangeMin' = IF inRange /\ (inRangeMin = NoValue \/ voltage < inRangeMin)
                           THEN voltage ELSE inRangeMin
          /\ UNCHANGED <<config, calib, currentBaselineCandidate, lastConsumed, owner>>

\* a whole getDustDensity call whose loop takes the given samples in turn
GetDustDensity(samples) ==
    /\ pc = "idle"
    /\ Len(samples) \in 1..255
    /\ Estimate(SumSeq(samples), Len(samples))
    /\ ledPin' = "HIGH"       \* every readDustRawOnce leaves the LED off
    /\ UNCHANGED loop

GetRunningAverage ==
    /\ pc = "idle"
    /\ Returns("getRunningAverage",
               IF runningAverageCount = 0 THEN ToUint16(-1)
               ELSE RunningAverageOf(runningAverageBuffer),
               NoValue, FALSE)
    /\ UNCHANGED <<config, calib, track, window, loop, ledPin, hist, owner>>

\* the owner keeps the value getBaselineCandidate has just returned
KeepCandidate ==
    /\ pc = "idle"
    /\ lastCall = "getBaselineCandidate"
    /\ heldCandidate' = ret
    /\ UNCHANGED <<config, calib, track, window, loop, ledPin, lastCall, ret,
                   scaledVoltage, candidateWasReady, hist, baselineSet>>

\* setBaseline(getBaselineCandidate()), the use the header comment describes,
\* with a value returned by some earlier getBaselineCandidate call
AdoptCandidate ==
    /\ heldCandidate # NoValue
    /\ SetBaseline(heldCandidate)

\* ------------------------------------------------------------------------
\* getDustDensity statement by statement
\* ------------------------------------------------------------------------

\* getDustDensity(n) is entered
EnterGetDustDensity(n) ==
    /\ pc = "idle"
    /\ pc' = "loop"
    /\ numSamples' = n
    /\ i' = 0
    /\ total' = 0
    /\ acquired' = 0
    /\ elapsed' = 0
    /\ lastOn' = 0
    /\ VoRaw' = 0
    /\ UNCHANGED <<config, calib, track, window, ledPin, lastCall, ret, scaledVoltage,
                   candidateWasReady, hist, owner>>

\* one pass of the loop body: readDustRawOnce gives raw, then i++
SampleOnce(raw) ==
    /\ pc = "loop"
    /\ i < numSamples
    /\ acquired < MaxAcquired
    /\ total' = total + raw     \* uint32_t: MaxAcquired * 1023 is far below 2^32
    /\ acquired' = acquired + 1
    /\ i' = (i + 1) % 256
    /\ lastOn' = elapsed
    /\ elapsed' = elapsed + SettleMicros + SampleMicros + RestMicros
    /\ VoRaw' = 0          \* the local of readDustRawOnce is gone on its return
    /\ ledPin' = "HIGH"
    /\ UNCHANGED <<pc, numSamples, config, calib, track, window, lastCall, ret,
                   scaledVoltage, candidateWasReady, hist, owner>>

\* the loop condition fails; the rest of getDustDensity runs and it returns
LeaveLoop ==
    /\ pc = "loop"
    /\ ~(i < numSamples)
    /\ Estimate(total, numSamples)
    /\ pc' = "idle"
    /\ UNCHANGED <<numSamples, i, total, acquired, elapsed, lastOn, VoRaw, ledPin>>

\* ------------------------------------------------------------------------
\* readDustRawOnce statement by statement, inside the loop of getDustDensity
\* ------------------------------------------------------------------------

SensorUnchanged ==
    UNCHANGED <<config, calib, track, window, lastCall, ret, scaledVoltage,
                candidateWasReady, hist, owner>>

\* the loop condition holds and readDustRawOnce turns the LED on
LedOn ==
    /\ pc = "loop"
    /\ i < numSamples
    /\ acquired < MaxAcquired
    /\ ledPin' = "LOW"
    /\ lastOn' = elapsed
    /\ pc' = "settle"
    /\ UNCHANGED <<numSamples, i, total, acquired, elapsed, VoRaw>>
    /\ SensorUnchanged

Settle_NoDelay ==
    /\ pc = "settle"
    /\ pc' = "read"
    /\ UNCHANGED <<numSamples, i, total, acquired, elapsed, lastOn, VoRaw, ledPin>>
    /\ SensorUnchanged

\* delayMicroseconds(280): the output of the sensor settles
Settle ==
    /\ pc = "settle"
    /\ elapsed' = elapsed + SettleMicros
    /\ pc' = "read"
    /\ UNCHANGED <<numSamples, i, total, acquired, lastOn, VoRaw, ledPin>>
    /\ SensorUnchanged

\* analogRead gives raw
AnalogRead(raw) ==
    /\ pc = "read"
    /\ VoRaw' = raw
    /\ acquired' = acquired + 1
    /\ elapsed' = elapsed + SampleMicros
    /\ pc' = "ledOff"
    /\ UNCHANGED <<numSamples, i, total, lastOn, ledPin>>
    /\ SensorUnchanged

\* the LED is turned off, readDustRawOnce returns and its result is added up
LedOff ==
    /\ pc = "ledOff"
    /\ ledPin' = "HIGH"
    /\ total' = total + VoRaw
    /\ VoRaw' = 0
    /\ pc' = "rest"
    /\ UNCHANGED <<numSamples, i, acquired, elapsed, lastOn>>
    /\ SensorUnchanged

\* delayMicroseconds(9620), then i++
Rest ==
    /\ pc = "rest"
    /\ elapsed' = elapsed + RestMicros
    /\ i' = (i + 1) % 256
    /\ pc' = "loop"
    /\ UNCHANGED <<numSamples, total, acquired, lastOn, VoRaw, ledPin>>
    /\ SensorUnchanged

\* ------------------------------------------------------------------------
\* Spec: the baseline tracker driven call by call (running average disabled)
\* ------------------------------------------------------------------------

\* sample runs fed to getDustDensity; raw 10 is 0.05 V (under the 0.1 V floor
\* of the 1014), 100 is 0.49 V, 400 is 1.95 V and their mean 250 is 1.22 V at
\* the 5 V reference
SampleRuns == {<<10>>, <<100>>, <<400>>, <<100, 400>>}

\* baselines the operator sets: 0.48828125 V (what raw 100 scales to) and 1.0 V
Baselines == {65536000, 134217728}

\* sensitivity the operator sets: 0.75
Sensitivities == {100663296}

\* calibration factor the operator sets: 1.5
CalibrationFactors == {6}

Init ==
    \E t \in GP2YDustSensorType : Construct(t, 0, DefaultVRef)

Next ==
    \/ \E samples \in SampleRuns : GetDustDensity(samples)
    \/ GetRunningAverage
    \/ GetBaseline
    \/ \E v \in Baselines : SetBaseline(v)
    \/ GetBaselineCandidate
    \/ \E v \in Sensitivities : SetSensitivity(v)
    \/ GetSensitivity
    \/ \E f \in CalibrationFactors : SetCalibrationFactor(f)

Spec == Init /\ [][Next]_vars

\* ------------------------------------------------------------------------
\* SpecWindow: the running average window filled read by read
\* ------------------------------------------------------------------------

\* raw 200 is 0.98 V
WindowRuns == {<<100>>, <<200>>, <<400>>}

InitWindow ==
    \E t \in GP2YDustSensorType, count \in 1..MaxCount :
        Construct(t, count, DefaultVRef)

NextWindow ==
    \/ \E samples \in WindowRuns : GetDustDensity(samples)
    \/ GetRunningAverage

SpecWindow == InitWindow /\ [][NextWindow]_vars

\* ------------------------------------------------------------------------
\* SpecFrame: every call of the API on a sensor with a one slot window
\* ------------------------------------------------------------------------

FrameRuns == {<<100>>}

InitFrame ==
    \E t \in GP2YDustSensorType : Construct(t, 1, DefaultVRef)

NextFrame ==
    \/ \E samples \in FrameRuns : GetDustDensity(samples)
    \/ GetRunningAverage
    \/ GetBaseline
    \/ \E v \in Baselines : SetBaseline(v)
    \/ GetBaselineCandidate
    \/ \E v \in Sensitivities : SetSensitivity(v)
    \/ GetSensitivity
    \/ \E f \in CalibrationFactors : SetCalibrationFactor(f)

SpecFrame == InitFrame /\ [][NextFrame]_vars

\* ------------------------------------------------------------------------
\* SpecAdopt: the baseline is only ever set to a returned candidate
\* ------------------------------------------------------------------------

\* raw 10 is under the range of the 1014, raw 400 above the range of both
AdoptRuns == {<<10>>, <<100>>, <<400>>}

InitAdopt ==
    \E t \in GP2YDustSensorType : Construct(t, 0, DefaultVRef)

NextAdopt ==
    \/ \E samples \in AdoptRuns : GetDustDensity(samples)
    \/ GetBaselineCandidate
    \/ KeepCandidate
    \/ AdoptCandidate
    \/ \E f \in CalibrationFactors : SetCalibrationFactor(f)

SpecAdopt == InitAdopt /\ [][NextAdopt]_vars

\* ------------------------------------------------------------------------
\* SpecStore: densities of every size pushed into the window
\* ------------------------------------------------------------------------

\* raw 110 is 0.537 V, 0.048828125 V above what raw 100 scales to
StoreRuns == {<<100>>, <<110>>, <<400>>}

\* a sensitivity of 2^-13 V per 100 ug/m3, under which a step of ten ADC
\* counts above the baseline is a density of 40000
StoreSensitivities == {16384}

\* the baseline 0.48828125 V
StoreBaselines == {65536000}

\* window sizes of SpecStore
StoreCounts == {1, 2}

InitStore ==
    \E t \in GP2YDustSensorType, count \in StoreCounts :
        Construct(t, count, DefaultVRef)

NextStore ==
    \/ \E samples \in StoreRuns : GetDustDensity(samples)
    \/ GetRunningAverage
    \/ \E v \in StoreBaselines : SetBaseline(v)
    \/ \E v \in StoreSensitivities : SetSensitivity(v)

SpecStore == InitStore /\ [][NextStore]_vars

\* ------------------------------------------------------------------------
\* SpecPulse: getDustDensity with the LED pulse of every sample spelled out
\* ------------------------------------------------------------------------

PulseCounts == {1, 3}

PulseValues == {100, 400}

InitPulse ==
    \E t \in GP2YDustSensorType : Construct(t, 0, DefaultVRef)

NextPulse ==
    \/ \E n \in PulseCounts : EnterGetDustDensity(n)
    \/ LedOn
    \/ Settle
    \/ \E raw \in PulseValues : AnalogRead(raw)
    \/ LedOff
    \/ Rest
    \/ LeaveLoop

SpecPulse == InitPulse /\ [][NextPulse]_vars

\* ------------------------------------------------------------------------
\* SpecDensity: one getDustDensity(1) call for every raw sample
\* ------------------------------------------------------------------------

\* every value of a 10 bit ADC
RawRange == 0..1023

\* the call is about to leave its loop, having taken the one sample raw,
\* in a sensor set up with the given sensitivity, factor and baseline
InitDensity ==
    \E t \in GP2YDustSensorType, raw \in RawRange,
       s \in Sensitivities \cup {DefaultSensitivity},
       f \in CalibrationFactors \cup {DefaultCalibrationFactor},
       usesTyp \in BOOLEAN :
        /\ type = t
        /\ vRef = DefaultVRef
        /\ sensitivity = s
        /\ nextRunningAverageCounter = 0
        /\ hasBaselineCandidate = FALSE
        /\ readCount = 0
        /\ zeroDustVoltage = IF usesTyp THEN TypZeroDustVoltageOf(t) ELSE 65536000
        /\ minDustVoltage = TypZeroDustVoltageOf(t)
        /\ calibrationFactor = f
        /\ currentBaselineCandidate = TypZeroDustVoltageOf(t)
        /\ runningAverageCount = 1
        /\ runningAverageBuffer = <<EMPTY>>
        /\ NothingCalled
        /\ pc = "loop"
        /\ numSamples = 1
        /\ i = 1
        /\ total = raw
        /\ acquired = 1
        /\ elapsed = SettleMicros + SampleMicros + RestMicros
        /\ lastOn = 0
        /\ VoRaw = 0
        /\ ledPin = "HIGH"

NextDensity ==
    \/ LeaveLoop
    \/ GetRunningAverage

SpecDensity == InitDensity /\ [][NextDensity]_vars

\* ------------------------------------------------------------------------
\* SpecSampling: getDustDensity calls followed through their sampling loop
\* ------------------------------------------------------------------------

\* sample counts asked for
SampleCounts == {1, 2, 256}

\* values analogRead gives
SampledValues == {100, 400}

InitSampling ==
    \E t \in GP2YDustSensorType : Construct(t, 0, DefaultVRef)

NextSampling ==
    \/ \E n \in SampleCounts : EnterGetDustDensity(n)
    \/ \E raw \in SampledValues : SampleOnce(raw)
    \/ LeaveLoop

SpecSampling == InitSampling /\ [][NextSampling]_vars

\* ------------------------------------------------------------------------
\* properties of the baseline tracker (Spec)
\* ------------------------------------------------------------------------

\* C1: a getBaselineCandidate call made while a candidate is ready returns
\* the tracked minimum and resets the tracker (readCount 0, flag false,
\* minimum back at maxZeroDustVoltage); the call right after it finds no
\* candidate ready and changes nothing.
C1_ConsumeResets ==
    [][ /\ (hasBaselineCandidate /\ lastCall' = "getBaselineCandidate")
           => /\ ret' = minDustVoltage
              /\ candidateWasReady'
              /\ readCount' = 0
              /\ ~hasBaselineCandidate'
              /\ minDustVoltage' = MaxZeroDustVoltageOf(type)
        /\ (lastCall = "getBaselineCandidate" /\ candidateWasReady
               /\ lastCall' = "getBaselineCandidate")
           => /\ ~candidateWasReady'
              /\ UNCHANGED track
      ]_vars

C1_Witness ==
    /\ lastCall = "getBaselineCandidate"
    /\ candidateWasReady
    /\ ret # MaxZeroDustVoltageOf(type)
    /\ minDustVoltage = MaxZeroDustVoltageOf(type)
    /\ readCount = 0

\* C2: a candidate is ready exactly when more than
\* BASELINE_CANDIDATE_MIN_READINGS getDustDensity calls have been made since
\* construction or since the last consuming getBaselineCandidate call,
\* whatever setter calls came in between.
C2_ReadyAfterEleven ==
    hasBaselineCandidate <=> readsSinceReset > BASELINE_CANDIDATE_MIN_READINGS

C2_Witness ==
    /\ hasBaselineCandidate
    /\ lastConsumed # NoValue
    /\ readsSinceReset > BASELINE_CANDIDATE_MIN_READINGS + 1
    /\ lastCall = "setCalibrationFactor"

\* C3: a getBaselineCandidate call made while no candidate is ready returns
\* currentBaselineCandidate and leaves the tracker, the baseline, the
\* calibration and the window as they were.
C3_PeekChangesNothing ==
    [][ (~hasBaselineCandidate /\ lastCall' = "getBaselineCandidate")
        => /\ ret' = currentBaselineCandidate
           /\ ~candidateWasReady'
           /\ UNCHANGED <<config, calib, track, window>>
           /\ (lastCall = "getBaselineCandidate" /\ ~candidateWasReady => ret' = ret)
      ]_vars

C3_Witness ==
    /\ lastCall = "getBaselineCandidate"
    /\ ~candidateWasReady
    /\ readCount > 0
    /\ readCount <= BASELINE_CANDIDATE_MIN_READINGS

\* C4: a getBaselineCandidate call made while no candidate is ready returns
\* the value the last consuming call returned, or typZeroDustVoltage when no
\* candidate has been consumed yet.
C4_PeekReturnsLastConsumed ==
    (lastCall = "getBaselineCandidate" /\ ~candidateWasReady)
    => ret = (IF lastConsumed = NoValue THEN TypZeroDustVoltageOf(type)
              ELSE lastConsumed)

\* C5: a consuming getBaselineCandidate call returns the least in-range
\* voltage getDustDensity has seen since the last reset (or construction),
\* when there is one.
C5_CandidateIsLeastInRange ==
    [][ (hasBaselineCandidate /\ lastCall' = "getBaselineCandidate"
            /\ inRangeMin # NoValue)
        => ret' = inRangeMin
      ]_vars

\* C8: a getDustDensity call whose scaled voltage is at or below
\* zeroDustVoltage returns 0.
C8_DensityFloor ==
    (lastCall = "getDustDensity" /\ scaledVoltage <= zeroDustVoltage) => ret = 0

C8_Witness ==
    /\ lastCall = "getDustDensity"
    /\ scaledVoltage = zeroDustVoltage
    /\ sensitivity # DefaultSensitivity
    /\ ret = 0

\* ------------------------------------------------------------------------
\* properties of the running average window (SpecWindow)
\* ------------------------------------------------------------------------

\* the mean of q to the nearest integer, halves up, in exact arithmetic
MeanRounded(q) ==
    IF q = <<>> THEN 0
    ELSE (2 * SumSeq(q) + Len(q)) \div (2 * Len(q))

\* C6: with a window of capacity c >= 1, getRunningAverage returns the mean,
\* rounded to the nearest integer, of the last min(n, c) densities pushed
\* (each within 0..600), and 0 when nothing has been pushed.
C6_AverageOfLastPushed ==
    (/\ lastCall = "getRunningAverage"
     /\ runningAverageCount >= 1
     /\ \A k \in 1..Len(pushed) : pushed[k] \in 0..600)
    => ret = MeanRounded(pushed)

C6_Witness ==
    /\ lastCall = "getRunningAverage"
    /\ runningAverageCount > 1
    /\ Len(pushed) = runningAverageCount
    /\ readsSinceReset > runningAverageCount
    /\ pushed[1] # pushed[Len(pushed)]
    /\ SumSeq(pushed) % Len(pushed) # 0
    /\ ret = MeanRounded(pushed)

\* ------------------------------------------------------------------------
\* properties of the sampling loop (SpecSampling)
\* ------------------------------------------------------------------------

\* C7: a getDustDensity(n) call acquires exactly n raw samples and returns:
\* while it runs it has acquired at most n, and it returns with n acquired.
C7_AcquiresSampleCount ==
    /\ pc = "loop" => acquired <= numSamples
    /\ (pc = "idle" /\ lastCall = "getDustDensity") => acquired = numSamples

\* ------------------------------------------------------------------------
\* properties of the density computation (SpecDensity)
\* ------------------------------------------------------------------------

\* floor(128 * 100 * d / sens) in exact arithmetic, for a voltage difference
\* d >= 0 and a sensitivity sens = m * 2^e with m small and 9 <= e <= 35
ExactDensity128(d, sens) ==
    LET n    == Normalize(sens, 0)
        unit == 2^(n.e - 9)
    IN  (25 * (d \div unit) + (25 * (d % unit)) \div unit) \div n.m

\* the call that returned last was getDustDensity with a scaled voltage at or
\* above the baseline
AboveBaseline ==
    /\ lastCall = "getDustDensity"
    /\ scaledVoltage >= zeroDustVoltage

\* the sensor is the GP2Y1014AU0F as constructed
DefaultSetup ==
    /\ type = "GP2Y1014AU0F"
    /\ sensitivity = DefaultSensitivity
    /\ calibrationFactor = DefaultCalibrationFactor
    /\ zeroDustVoltage = TypZeroDustVoltageOf(type)

\* C9 as stated: the density returned is (voltage - zeroDustVoltage) /
\* sensitivity * 100 rounded to the nearest integer, 271 for a raw mean of
\* 400 and 0 for a raw mean of 123 in the default setup.
C9_DensityRounded ==
    AboveBaseline =>
      LET x == ExactDensity128(scaledVoltage - zeroDustVoltage, sensitivity)
      IN  /\ ret \in {(x + 63) \div 128, (x + 64) \div 128, (x + 65) \div 128}
          /\ (DefaultSetup /\ total = 400) => ret = 271
          /\ (DefaultSetup /\ total = 123) => ret = 0

\* C9 amended: the density returned is (voltage - zeroDustVoltage) /
\* sensitivity * 100 with its fraction dropped, up to the error of the float
\* operations (under 1/128): 270 for a raw mean of 400 and 0 for a raw mean
\* of 123 in the default setup; the voltage is raw * 5 / 1024 * factor.
C9_DensityTruncated ==
    AboveBaseline =>
      LET x == ExactDensity128(scaledVoltage - zeroDustVoltage, sensitivity)
      IN  /\ ret >= (x - 1) \div 128
          /\ ret <= (x + 1) \div 128
          /\ scaledVoltage = total * ((vRef \div AdcScale) \div CalibUnit) * calibrationFactor
          /\ (DefaultSetup /\ total = 400) => ret = 270
          /\ (DefaultSetup /\ total = 123) => ret = 0

C9_Witness ==
    /\ AboveBaseline
    /\ DefaultSetup
    /\ total = 400
    /\ ret = 270

\* C10: in the default configuration every raw mean in 0..1023 gives a
\* density within 0..600, and getRunningAverage stays within 0..600 too.
C10_DensityAtMost600 ==
    (/\ lastCall \in {"getDustDensity", "getRunningAverage"}
     /\ sensitivity = DefaultSensitivity
     /\ calibrationFactor = DefaultCalibrationFactor
     /\ zeroDustVoltage = TypZeroDustVoltageOf(type))
    => ret \in 0..600

\* C13: whatever is read and whatever the setters are given, the tracked
\* minimum stays within the zero dust range of the sensor type:
\* minZeroDustVoltage <= minDustVoltage <= maxZeroDustVoltage.
C13_MinimumInRange ==
    /\ MinZeroDustVoltageOf(type) <= minDustVoltage
    /\ minDustVoltage <= MaxZeroDustVoltageOf(type)

\* a reading under the floor of the range, and under the tracked minimum, came in
C13_Witness ==
    /\ lastCall = "getDustDensity"
    /\ scaledVoltage < MinZeroDustVoltageOf(type)
    /\ scaledVoltage < minDustVoltage
    /\ zeroDustVoltage \in Baselines

\* C16: a candidate is ready exactly when readCount is 11; readCount is at
\* most 10 otherwise, is not advanced while a candidate is ready and never
\* exceeds 11.
C16_ReadyIffEleven ==
    /\ hasBaselineCandidate <=> (readCount = BASELINE_CANDIDATE_MIN_READINGS + 1)
    /\ readCount <= BASELINE_CANDIDATE_MIN_READINGS + 1
    /\ readCount >= 0

\* more readings than eleven came in since the last reset
C16_Witness ==
    /\ hasBaselineCandidate
    /\ readCount = BASELINE_CANDIDATE_MIN_READINGS + 1
    /\ readsSinceReset > BASELINE_CANDIDATE_MIN_READINGS + 1
    /\ lastCall = "getDustDensity"

\* C17: as long as setBaseline is only given values that an earlier
\* getBaselineCandidate call returned (ready or not), zeroDustVoltage stays
\* within minZeroDustVoltage .. maxZeroDustVoltage.
C17_AdoptedBaselineInRange ==
    /\ MinZeroDustVoltageOf(type) <= zeroDustVoltage
    /\ zeroDustVoltage <= MaxZeroDustVoltageOf(type)

\* a consumed minimum under the typical voltage has been adopted as baseline
C17_Witness ==
    /\ lastCall = "setBaseline"
    /\ zeroDustVoltage = heldCandidate
    /\ zeroDustVoltage < TypZeroDustVoltageOf(type)

BaselineInForce ==
    IF baselineSet = NoValue THEN TypZeroDustVoltageOf(type) ELSE baselineSet

\* C18: zeroDustVoltage is the last argument of setBaseline, or the typical
\* voltage if there was none: no other call changes it, getBaseline returns
\* it, and setBaseline leaves the tracked minimum, readCount, the candidate
\* flag and the running average window as they are.
C18_BaselineFrame ==
    [][/\ zeroDustVoltage' = BaselineInForce'
       /\ (lastCall' # "setBaseline") => (zeroDustVoltage' = zeroDustVoltage)
       /\ (lastCall' = "getBaseline") => (ret' = BaselineInForce')
       /\ (lastCall' = "setBaseline") => UNCHANGED <<track, window>>]_vars

\* getBaseline returns a baseline set several calls ago, with a candidate
\* ready and the window filled
C18_Witness ==
    /\ lastCall = "getBaseline"
    /\ baselineSet # NoValue
    /\ ret = baselineSet
    /\ hasBaselineCandidate
    /\ FilledSlots(runningAverageBuffer) # {}
    /\ minDustVoltage < TypZeroDustVoltageOf(type)

\* C14: with baseline, sensitivity and calibration factor fixed, the density
\* never decreases as the raw mean grows: what getDustDensity returns for a
\* raw mean r in 1..1023 is at least the density of r - 1.
C14_Monotone ==
    (lastCall = "getDustDensity" /\ total > 0) =>
      \A below \in DustDensityOf(ScaledVoltageOf(total - 1, vRef, calibrationFactor),
                                 zeroDustVoltage, sensitivity) :
          below <= ret

\* the largest raw mean, away from the default setup, with a density above
\* that of the raw mean before it
C14_Witness ==
    /\ lastCall = "getDustDensity"
    /\ total = 1023
    /\ sensitivity # DefaultSensitivity
    /\ calibrationFactor # DefaultCalibrationFactor
    /\ \E below \in DustDensityOf(ScaledVoltageOf(total - 1, vRef, calibrationFactor),
                                   zeroDustVoltage, sensitivity) :
          below < ret

\* C15: with a window of c >= 1 slots, nextRunningAverageCounter is always
\* within 0 .. c - 1 and equals k mod c after k readings; each getDustDensity
\* writes the slot at nextRunningAverageCounter and no other, then advances
\* the counter by one modulo c.
C15_RingIndex ==
    /\ [](runningAverageCount >= 1 =>
            /\ nextRunningAverageCounter \in 0..(runningAverageCount - 1)
            /\ Len(runningAverageBuffer) = runningAverageCount
            /\ (readsSinceReset < MaxReads) =>
                  (nextRunningAverageCounter = readsSinceReset % runningAverageCount))
    /\ [][(lastCall' = "getDustDensity" /\ runningAverageCount >= 1) =>
            /\ runningAverageBuffer'[nextRunningAverageCounter + 1] = ToInt16(ret')
            /\ \A k \in 1..runningAverageCount :
                  (k # nextRunningAverageCounter + 1) =>
                      (runningAverageBuffer'[k] = runningAverageBuffer[k])
            /\ nextRunningAverageCounter' =
                  (nextRunningAverageCounter + 1) % runningAverageCount]_vars

\* the counter of a window of several slots is back at 0 for the second time
C15_Witness ==
    /\ lastCall = "getDustDensity"
    /\ runningAverageCount > 1
    /\ readsSinceReset = 2 * runningAverageCount
    /\ nextRunningAverageCounter = 0

\* the slot the last updateRunningAverage wrote
LastWritten ==
    IF nextRunningAverageCounter = 0 THEN runningAverageCount
    ELSE nextRunningAverageCounter

\* C19: every density getDustDensity returns, whatever the sensitivity,
\* baseline and calibration factor, is stored as it is: the slot written
\* holds the returned value and counts as filled, and after n readings
\* min(n, c) of the c slots are filled.
C19_StoredFaithfully ==
    (runningAverageCount >= 1) =>
      /\ Cardinality(FilledSlots(runningAverageBuffer)) =
            Least(readsSinceReset, runningAverageCount)
      /\ (lastCall = "getDustDensity") =>
            /\ LastWritten \in FilledSlots(runningAverageBuffer)
            /\ runningAverageBuffer[LastWritten] = ret

\* C11: in every readDustRawOnce the LED is turned on first, the 280 us
\* settle delay passes, the sample is taken with the LED still on, and only
\* then is the LED turned off; the LED is off during every rest between
\* samples and whenever readDustRawOnce or getDustDensity has returned.
C11_PulseOrder ==
    /\ [](/\ (pc \in {"settle", "read", "ledOff"}) => (ledPin = "LOW")
          /\ (pc = "settle") => (elapsed = lastOn)
          /\ (pc = "read") => (elapsed = lastOn + SettleMicros)
          /\ (pc = "rest") => (ledPin = "HIGH")
          /\ (pc = "loop" /\ acquired > 0) => (ledPin = "HIGH")
          /\ (pc = "idle" /\ lastCall = "getDustDensity") => (ledPin = "HIGH"))
    /\ [][(acquired' # acquired /\ acquired' # 0) =>
            /\ ledPin = "LOW"
            /\ ledPin' = "LOW"
            /\ elapsed >= lastOn + SettleMicros]_vars

\* the second sample of a call has been taken and the LED is still on
C11_Witness ==
    /\ pc = "ledOff"
    /\ acquired = 2
    /\ ledPin = "LOW"
    /\ VoRaw = 400

\* C12: on a clock where analogRead takes 100 us, every sample of
\* getDustDensity takes exactly 10000 us from LED on to the end of its rest,
\* successive LED pulses of a call start 10 ms apart, and getDustDensity(n)
\* is over n * 10 ms after it was entered.
C12_TenMilliseconds ==
    /\ (pc = "loop") =>
          /\ elapsed = acquired * 10000
          /\ (acquired > 0) => (elapsed = lastOn + 10000)
          /\ elapsed <= numSamples * 10000
    /\ (pc = "idle" /\ lastCall = "getDustDensity") =>
          (elapsed = numSamples * 10000)

====
